---- MODULE Spec2Model ----
(***************************************************************************)
(* Model of the Multitek Smart Home integration for one config entry: the  *)
(* setup and the unload of the entry (__init__.py), the data coordinator   *)
(* (coordinator.py) with its periodic refresh and its relay commands, the  *)
(* relay switch entities (switch.py) that listen to it, the values of the  *)
(* two sensors (sensor.py), and the config flow that makes the entries     *)
(* (config_flow.py).                                                       *)
(*                                                                         *)
(* MultitekDataCoordinator extends Home Assistant's DataUpdateCoordinator. *)
(* What the base class does with the value or the exception of             *)
(* _async_update_data (assign data, set last_update_success, re-arm the    *)
(* refresh interval, call the listeners) and what async_set_updated_data   *)
(* does are modelled as homeassistant.helpers.update_coordinator does      *)
(* them, at the places where the integration calls into the base class.    *)
(***************************************************************************)
EXTENDS Integers, Sequences, FiniteSets, TLC

\* Length bound of the device list one /api/devices answer carries.
MaxDevices == 2

\* The clock ticks that make one refresh interval (DEFAULT_UPDATE_INTERVAL
\* seconds).
IntervalTicks == 2

\* const.py: the default port of the tablet's API.
DEFAULT_PORT == 8123

\* const.py: device types.
RELAY_TYPE_LIGHT == 1
RELAY_TYPE_SHUTTER == 2
RELAY_TYPE_ON_OFF == 3
RELAY_TYPE_GAS == 4
RELAY_TYPE_ELECTRIC == 5
RELAY_TYPE_WATER == 6

\* const.py: device type names.
DEVICE_TYPE_NAMES ==
    (RELAY_TYPE_LIGHT :> "Light") @@ (RELAY_TYPE_SHUTTER :> "Shutter")
        @@ (RELAY_TYPE_ON_OFF :> "Switch") @@ (RELAY_TYPE_GAS :> "Gas Valve")
        @@ (RELAY_TYPE_ELECTRIC :> "Electric Switch")
        @@ (RELAY_TYPE_WATER :> "Water Valve")

\* switch.py: device types that should be represented as switches.
SWITCH_DEVICE_TYPES ==
    {RELAY_TYPE_LIGHT, RELAY_TYPE_ON_OFF, RELAY_TYPE_GAS,
     RELAY_TYPE_ELECTRIC, RELAY_TYPE_WATER}

\* The JSON values the tablet sends as a device's "id", written as JSON text:
\* the string "1" and the number 2.
JsonIds == {"\"1\"", "2"}

\* The device types the tablet reports in this model: one switch type, one not.
Types == {RELAY_TYPE_LIGHT, RELAY_TYPE_SHUTTER}

\* str(v) of a JSON id value: a string is itself (without the JSON quotes), a
\* number is its decimal text.
Str(v) ==
    CASE v = "\"1\"" -> "1"
      [] v = "\"2\"" -> "2"
      [] v = "1" -> "1"
      [] v = "2" -> "2"
      [] OTHER -> "None"

\* The keys of the snapshot: what str() makes of the ids.
DeviceIds == {Str(v) : v \in JsonIds}

\* A Python dict is a function on its keys.
EmptyDict == <<>>

\* d.get(k, default)
Get(d, k, default) == IF k \in DOMAIN d THEN d[k] ELSE default

\* d[k] = v
Put(d, k, v) == [x \in DOMAIN d \cup {k} |-> IF x = k THEN v ELSE d[x]]

\* d.update(r): the keys of r overwrite, the other keys of d stay.
DictUpdate(d, r) ==
    [x \in DOMAIN d \cup DOMAIN r |-> IF x \in DOMAIN r THEN r[x] ELSE d[x]]

\* One entry of the "devices" list of GET /api/devices: a light with its
\* state, or a shutter, which has no boolean state.
DeviceEntries ==
    [id : JsonIds, type : {RELAY_TYPE_LIGHT}, state : BOOLEAN]
        \cup [id : JsonIds, type : {RELAY_TYPE_SHUTTER}]

\* The place of a device id in the order the tablet lists its devices in.
Rank(device_id) == IF device_id = "1" THEN 1 ELSE 2

\* The device lists the tablet answers with: ids are unique within a list,
\* and a list is in the order of its ids (the dict built from a list of unique
\* ids is the same in any order).
DeviceLists ==
    {l \in UNION {[1..n -> DeviceEntries] : n \in 0..MaxDevices} :
        \A i, j \in DOMAIN l :
            i < j => Rank(Str(l[i].id)) < Rank(Str(l[j].id))}

\* The ways an HTTP call fails: the timeout of async_timeout, an
\* aiohttp.ClientError, a status other than 200.
Failures == {"timeout", "client_error", "status"}
FailedResponses == [kind : Failures]

\* The answers to GET /api/status.
StatusResponses ==
    [kind : {"ok"}, body : {[online |-> TRUE], [online |-> FALSE], EmptyDict}]
        \cup FailedResponses

\* The answers to GET /api/devices.
DevicesResponses == [kind : {"ok"}, devices : DeviceLists] \cup FailedResponses

\* The bodies of a 200 answer to POST /api/relay/{device_id}/state|toggle:
\* the updated state, with or without the device's id.
RelayResults(device_id) ==
    [state : BOOLEAN]
        \cup [id : {v \in JsonIds : Str(v) = device_id}, state : BOOLEAN]

\* The answers to the POST of a relay command.
RelayResponses(device_id) ==
    [kind : {"ok"}, result : RelayResults(device_id)] \cup FailedResponses

VARIABLES
    setup,                 \* where async_setup_entry of the entry stands
    status,                \* the answer to the GET /api/status of the setup
    hass_data,             \* hass.data[DOMAIN] holds the entry id
    devices,               \* hass.data[DOMAIN][entry_id]["devices"]
    has_data,              \* coordinator.data is not None
    data,                  \* coordinator.data: the snapshot
    last_update_success,   \* coordinator.last_update_success
    listeners,             \* the coordinator has listeners
    unsub_refresh,         \* the scheduled refresh and the ticks left to it
    fetch,                 \* the GET /api/devices in flight
    cmd,                   \* the send_relay_command in flight
    entities,              \* the switch entities: device id -> _attr_is_on
    last,                  \* what the last step did
    entry,                 \* entry.data of the config entry that is set up
    headers,               \* coordinator.headers
    flow,                  \* the config flow in progress
    entries                \* the config entries: unique id and data

vars ==
    <<setup, status, hass_data, devices, has_data, data, last_update_success,
      listeners, unsub_refresh, fetch, cmd, entities, last, entry, headers,
      flow, entries>>

\* The addresses and the API keys a user types into the config flow.
TabletIps == {"10.0.0.1", "10.0.0.2"}
ApiKeys == {"key1", "key2"}

\* The data of the config entries: what async_step_user and async_step_auth
\* store, and the data of an entry that has neither use_auth nor api_key.
EntryDatas ==
    [tablet_ip : TabletIps, tablet_port : {DEFAULT_PORT}, use_auth : {FALSE},
     api_key : {""}]
        \cup [tablet_ip : TabletIps, tablet_port : {DEFAULT_PORT},
              use_auth : {TRUE}, api_key : ApiKeys]
        \cup [tablet_ip : TabletIps, tablet_port : {DEFAULT_PORT}]

\* No config flow is in progress.
NoFlow ==
    [step |-> "none", errors |-> EmptyDict, discovered_info |-> EmptyDict,
     answer |-> "none", headers |-> EmptyDict]

\* No refresh is scheduled.
Unscheduled == [armed |-> FALSE, left |-> 0]

NoStatus == [kind |-> "none"]
NoFetch == [pc |-> "idle", devices |-> <<>>, patched |-> FALSE,
            headers |-> EmptyDict]
NoCmd == [pc |-> "idle", device_id |-> "", command |-> "", value |-> FALSE,
          via |-> "", headers |-> EmptyDict]

\* session.get(f"{base_url}/api/status", headers=h) of the setup, in flight.
SentStatus(h) == [kind |-> "sent", headers |-> h]

\* session.get(f"{self.base_url}{API_DEVICES}", headers=h), in flight.
SentFetch(h) ==
    [pc |-> "sent", devices |-> <<>>, patched |-> FALSE, headers |-> h]
NoResult == EmptyDict

\* The record of a step: the call that ended, whether the listeners were
\* called, whether an exception reached the caller, the value returned, and
\* whether a refresh replaced a snapshot patched after its answer was made.
Did(op, notified, raised, result, stale) ==
    [op |-> op, notified |-> notified, raised |-> raised, result |-> result,
     stale |-> stale]

\* The record of a step that only starts a call.
Pending == Did("none", FALSE, FALSE, NoResult, FALSE)

InitWith(entry_data) ==
    /\ setup = "not_loaded"
    /\ status = NoStatus
    /\ hass_data = FALSE
    /\ devices = {}
    /\ has_data = FALSE
    /\ data = EmptyDict
    /\ last_update_success = TRUE
    /\ listeners = FALSE
    /\ unsub_refresh = Unscheduled
    /\ fetch = NoFetch
    /\ cmd = NoCmd
    /\ entities = EmptyDict
    /\ last = Pending
    /\ entry = entry_data
    /\ headers = EmptyDict
    /\ flow = NoFlow
    /\ entries = {}

\* The entry that is set up was made by the auth step of the config flow.
Init ==
    InitWith([tablet_ip |-> "10.0.0.1", tablet_port |-> DEFAULT_PORT,
              use_auth |-> TRUE, api_key |-> "key1"])

(***************************************************************************)
(* coordinator.py                                                          *)
(***************************************************************************)

\* A bug of __init__: the header is set whatever use_auth says.
Headers_Always(entry_data) ==
    "X-HA-Access" :> Get(entry_data, "api_key", "")

\* __init__, lines 40-43: self.headers.
Headers(entry_data) ==
    IF Get(entry_data, "use_auth", FALSE)
    THEN "X-HA-Access" :> Get(entry_data, "api_key", "")
    ELSE EmptyDict

\* The refresh interval after the base class scheduled the next refresh
\* (update_interval from now on, replacing what was scheduled), which it does
\* when the coordinator has listeners.
ScheduleRefresh(has_listeners) ==
    IF has_listeners
    THEN [armed |-> TRUE, left |-> IntervalTicks]
    ELSE Unscheduled

\* _async_update_data, lines 66-69: the loop that keys the devices by str(id),
\* starting from the dict devs.
RECURSIVE BuildDevices(_, _)
BuildDevices(devs, list) ==
    IF Len(list) = 0
    THEN devs
    ELSE BuildDevices(
             Put(devs, Str(Get(Head(list), "id", "null")), Head(list)),
             Tail(list))

\* A bug of _async_update_data: the devices are added to the old snapshot.
AsyncUpdateData_Merge(self_data, response) ==
    IF response.kind = "ok"
    THEN [raised |-> FALSE, devices |-> BuildDevices(self_data, response.devices)]
    ELSE [raised |-> TRUE, devices |-> EmptyDict]

\* A bug of _async_update_data: a failed fetch returns no devices instead of
\* raising UpdateFailed.
AsyncUpdateData_Swallow(self_data, response) ==
    IF response.kind = "ok"
    THEN [raised |-> FALSE, devices |-> BuildDevices(EmptyDict, response.devices)]
    ELSE [raised |-> FALSE, devices |-> EmptyDict]

\* _async_update_data: the devices of a 200 answer in a new dict, UpdateFailed
\* otherwise.
AsyncUpdateData(self_data, response) ==
    IF response.kind = "ok"
    THEN [raised |-> FALSE, devices |-> BuildDevices(EmptyDict, response.devices)]
    ELSE [raised |-> TRUE, devices |-> EmptyDict]

\* A bug of the patch: the result replaces the entry.
PatchData_Replace(self_data, device_id, result) ==
    IF device_id \in DOMAIN self_data
    THEN Put(self_data, device_id, result)
    ELSE self_data

\* A bug of the patch: no test that the device is in the snapshot.
PatchData_Upsert(self_data, device_id, result) ==
    Put(self_data, device_id,
        DictUpdate(Get(self_data, device_id, EmptyDict), result))

\* send_relay_command, lines 110-111: the patch of self.data with the result.
PatchData(self_data, device_id, result) ==
    IF device_id \in DOMAIN self_data
    THEN Put(self_data, device_id, DictUpdate(self_data[device_id], result))
    ELSE self_data

\* A bug of send_relay_command: a failure is logged and not raised again.
SendRelayCommand_Swallow(self_data, device_id, response) ==
    IF response.kind = "ok"
    THEN [raised |-> FALSE, result |-> response.result,
          data |-> PatchData(self_data, device_id, response.result),
          updated |-> device_id \in DOMAIN self_data]
    ELSE [raised |-> FALSE, result |-> NoResult, data |-> self_data,
          updated |-> FALSE]

\* A bug of send_relay_command: the patch without async_set_updated_data.
SendRelayCommand_Silent(self_data, device_id, response) ==
    IF response.kind = "ok"
    THEN [raised |-> FALSE, result |-> response.result,
          data |-> PatchData(self_data, device_id, response.result),
          updated |-> FALSE]
    ELSE [raised |-> TRUE, result |-> NoResult, data |-> self_data,
          updated |-> FALSE]

\* A bug of send_relay_command: async_set_updated_data after every 200, the
\* device in self.data or not.
SendRelayCommand_AlwaysUpdated(self_data, device_id, response) ==
    IF response.kind = "ok"
    THEN [raised |-> FALSE, result |-> response.result,
          data |-> PatchData(self_data, device_id, response.result),
          updated |-> TRUE]
    ELSE [raised |-> TRUE, result |-> NoResult, data |-> self_data,
          updated |-> FALSE]

\* send_relay_command once its POST is answered: on 200 the patch, with
\* async_set_updated_data when the device is in self.data, and the result
\* returned; otherwise the exception raised.
SendRelayCommand(self_data, device_id, response) ==
    IF response.kind = "ok"
    THEN [raised |-> FALSE, result |-> response.result,
          data |-> PatchData(self_data, device_id, response.result),
          updated |-> device_id \in DOMAIN self_data]
    ELSE [raised |-> TRUE, result |-> NoResult, data |-> self_data,
          updated |-> FALSE]

(***************************************************************************)
(* switch.py                                                               *)
(***************************************************************************)

\* _update_from_data: self._attr_is_on = device_data.get("state", False)
SwitchIsOn(device_data) == Get(device_data, "state", FALSE)

\* The device ids of `d` a switch is created for, `known` being those skipped.
SwitchIds(d, known) ==
    {id \in DOMAIN d :
        /\ id \notin known
        /\ Get(d[id], "type", RELAY_TYPE_ON_OFF) \in SWITCH_DEVICE_TYPES}

\* MultitekRelaySwitch._handle_coordinator_update of the switch of device id.
HandleCoordinatorUpdate(is_on, d, id) ==
    IF id \in DOMAIN d /\ d[id] # EmptyDict THEN SwitchIsOn(d[id]) ELSE is_on

\* The switches after the listeners ran on the snapshot d: the registered ones
\* re-read their device, and a switch handed to async_add_entities is
\* registered unless the entity platform already has its unique id.
EntitiesAfterUpdate(ents, d, new) ==
    [id \in DOMAIN ents \cup new |->
        IF id \in DOMAIN ents
        THEN HandleCoordinatorUpdate(ents[id], d, id)
        ELSE SwitchIsOn(d[id])]

\* The switch after its action returned from send_relay_command: the
\* "optimistic" assignment of async_turn_on, async_turn_off, async_toggle.
AfterAction(is_on, command, value) ==
    IF command = "toggle" THEN ~is_on ELSE value

\* handle_coordinator_update, line 72: hass.data[DOMAIN][entry.entry_id] is a
\* KeyError once async_unload_entry removed the entry; raised by the first
\* listener, it ends async_update_listeners.
ListenerRaises(call) == call /\ listeners /\ ~hass_data

\* coordinator.async_update_listeners() when `call` holds:
\* handle_coordinator_update of the switch platform, then every switch's
\* _handle_coordinator_update, on the snapshot d; then, for the switches
\* `acting`, the rest of their action.
UpdateListeners(call, d, acting) ==
    LET new == IF call /\ listeners /\ hass_data
               THEN SwitchIds(d, devices)
               ELSE {}
        ents == IF call /\ listeners /\ hass_data
                THEN EntitiesAfterUpdate(entities, d, new)
                ELSE entities
    IN  /\ devices' = devices \cup new
        /\ entities' =
               [id \in DOMAIN ents |->
                   IF id \in acting
                   THEN AfterAction(ents[id], cmd.command, cmd.value)
                   ELSE ents[id]]

(***************************************************************************)
(* sensor.py                                                               *)
(***************************************************************************)

\* MultitekDeviceCountSensor.native_value: len(self.coordinator.data)
DeviceCount(coordinator_data) == Cardinality(DOMAIN coordinator_data)

\* MultitekDeviceCountSensor.extra_state_attributes, line 65: the group a
\* device is counted in.
DeviceType(device) == Get(device, "type_name", "unknown")

\* MultitekDeviceCountSensor.extra_state_attributes: "device_types", the
\* number of devices of each group.
DeviceTypes(coordinator_data) ==
    [name \in {DeviceType(coordinator_data[id]) : id \in DOMAIN coordinator_data}
        |-> Cardinality({id \in DOMAIN coordinator_data :
                            DeviceType(coordinator_data[id]) = name})]

\* A bug of the connection status: it follows nothing.
ConnectionStatus_Stuck(success) == "Connected"

\* MultitekConnectionStatusSensor.native_value
ConnectionStatus(success) == IF success THEN "Connected" ELSE "Disconnected"

(***************************************************************************)
(* __init__.py: async_setup_entry                                          *)
(***************************************************************************)

\* async_setup_entry, lines 43-45: the headers of the GET /api/status.
SetupHeaders(entry_data) ==
    IF Get(entry_data, "use_auth", FALSE)
    THEN "X-HA-Access" :> Get(entry_data, "api_key", "")
    ELSE EmptyDict

\* A bug of the probe: "online" is not looked at.
StatusReady_AnyBody(response) == response.kind = "ok"

\* Lines 47-53: the tablet answered 200 and says it is online.
StatusReady(response) ==
    response.kind = "ok" /\ Get(response.body, "online", FALSE)

\* async_setup_entry is called (again after a ConfigEntryNotReady): the GET
\* /api/status is sent.
async_setup_entry ==
    /\ setup \in {"not_loaded", "not_ready"}
    /\ setup' = "probe"
    /\ status' = SentStatus(SetupHeaders(entry))
    /\ last' = Pending
    /\ UNCHANGED <<entry, headers, flow, entries>>
    /\ UNCHANGED <<hass_data, devices, has_data, data, last_update_success,
                   listeners, unsub_refresh, fetch, cmd, entities>>

\* /api/status did not answer 200 with online true: ConfigEntryNotReady.
status_failed ==
    /\ setup = "probe"
    /\ \E response \in StatusResponses :
        /\ ~StatusReady(response)
        /\ status' = response
    /\ setup' = "not_ready"
    /\ last' = Did("probe_failed", FALSE, TRUE, NoResult, FALSE)
    /\ UNCHANGED <<entry, headers, flow, entries>>
    /\ UNCHANGED <<hass_data, devices, has_data, data, last_update_success,
                   listeners, unsub_refresh, fetch, cmd, entities>>

\* /api/status answered 200 with online true: the coordinator is created and
\* stored, and async_config_entry_first_refresh sends its GET /api/devices.
status_online ==
    /\ setup = "probe"
    /\ \E response \in StatusResponses :
        /\ StatusReady(response)
        /\ status' = response
    /\ setup' = "first_refresh"
    /\ hass_data' = TRUE
    /\ devices' = {}
    /\ has_data' = FALSE
    /\ data' = EmptyDict
    /\ last_update_success' = TRUE
    /\ listeners' = FALSE
    /\ unsub_refresh' = Unscheduled
    /\ headers' = Headers(entry)
    /\ fetch' = SentFetch(headers')
    /\ last' = Did("probe_ok", FALSE, FALSE, NoResult, FALSE)
    /\ UNCHANGED <<entry, flow, entries>>
    /\ UNCHANGED <<cmd, entities>>

\* The tablet answers the GET /api/devices in flight with 200 and a list of
\* `lists`.
devices_answer_from(lists) ==
    /\ fetch.pc = "sent"
    /\ \E list \in lists :
        fetch' = [fetch EXCEPT !.pc = "answered", !.devices = list]
    /\ last' = Pending
    /\ UNCHANGED <<entry, headers, flow, entries>>
    /\ UNCHANGED <<setup, status, hass_data, devices, has_data, data,
                   last_update_success, listeners, unsub_refresh, cmd,
                   entities>>

\* The tablet answers the GET /api/devices in flight with 200 and a list.
devices_answer == devices_answer_from(DeviceLists)

\* async_config_entry_first_refresh got its devices: the snapshot is set, and
\* async_setup_entry goes on.
first_refresh_ok ==
    /\ setup = "first_refresh"
    /\ fetch.pc = "answered"
    /\ LET r == AsyncUpdateData(data, [kind |-> "ok", devices |-> fetch.devices])
       IN  /\ data' = IF r.raised THEN data ELSE r.devices
           /\ has_data' = (has_data \/ ~r.raised)
           /\ last_update_success' = ~r.raised
           /\ UpdateListeners(TRUE, data', {})
           /\ setup' = IF r.raised THEN "not_ready" ELSE "forward"
           /\ last' = Did("first_refresh_ok", listeners, r.raised, NoResult,
                          fetch.patched)
    /\ unsub_refresh' = ScheduleRefresh(listeners)
    /\ fetch' = NoFetch
    /\ UNCHANGED <<entry, headers, flow, entries>>
    /\ UNCHANGED <<status, hass_data, listeners, cmd>>

\* async_config_entry_first_refresh failed: ConfigEntryNotReady out of
\* async_setup_entry.
first_refresh_failed ==
    /\ setup = "first_refresh"
    /\ \E response \in FailedResponses :
        /\ fetch.pc = "sent" \/ (fetch.pc = "answered" /\ response.kind # "status")
        /\ LET r == AsyncUpdateData(data, response)
           IN  /\ data' = IF r.raised THEN data ELSE r.devices
               /\ has_data' = (has_data \/ ~r.raised)
               /\ last_update_success' = ~r.raised
               /\ UpdateListeners(~r.raised \/ last_update_success, data', {})
               /\ setup' = IF r.raised THEN "not_ready" ELSE "forward"
               /\ last' = Did("first_refresh_failed",
                              (~r.raised \/ last_update_success) /\ listeners,
                              r.raised, NoResult, FALSE)
    /\ unsub_refresh' = ScheduleRefresh(listeners)
    /\ fetch' = NoFetch
    /\ UNCHANGED <<entry, headers, flow, entries>>
    /\ UNCHANGED <<status, hass_data, listeners, cmd>>

\* async_forward_entry_setups: async_setup_entry of switch.py creates a switch
\* per device of a switch type and subscribes handle_coordinator_update (the
\* first listener arms the refresh interval); sensor.py adds its two sensors.
forward_entry_setups ==
    /\ setup = "forward"
    /\ entities' = EntitiesAfterUpdate(EmptyDict, data, SwitchIds(data, {}))
    /\ listeners' = TRUE
    /\ unsub_refresh' = ScheduleRefresh(TRUE)
    /\ setup' = "loaded"
    /\ last' = Did("loaded", FALSE, FALSE, NoResult, FALSE)
    /\ UNCHANGED <<entry, headers, flow, entries>>
    /\ UNCHANGED <<status, hass_data, devices, has_data, data,
                   last_update_success, fetch, cmd>>

(***************************************************************************)
(* coordinator.py: the periodic refresh                                    *)
(***************************************************************************)

\* Time passes: the scheduled refresh is one tick nearer. An HTTP call ends
\* within its 10 s timeout, which is less than a tick, so none stays in flight
\* over one.
tick ==
    /\ unsub_refresh.armed
    /\ unsub_refresh.left > 0
    /\ fetch.pc = "idle"
    /\ cmd.pc = "idle"
    /\ unsub_refresh' = [unsub_refresh EXCEPT !.left = @ - 1]
    /\ last' = Pending
    /\ UNCHANGED <<entry, headers, flow, entries>>
    /\ UNCHANGED <<setup, status, hass_data, devices, has_data, data,
                   last_update_success, listeners, fetch, cmd, entities>>

\* The refresh interval fires: GET /api/devices is sent, unless the
\* coordinator was shut down.
refresh_interval ==
    /\ setup \in {"loaded", "unloaded"}
    /\ unsub_refresh.armed
    /\ unsub_refresh.left = 0
    /\ fetch.pc = "idle"
    /\ unsub_refresh' = Unscheduled
    /\ fetch' = IF setup = "loaded" THEN SentFetch(headers) ELSE fetch
    /\ last' = Pending
    /\ UNCHANGED <<entry, headers, flow, entries>>
    /\ UNCHANGED <<setup, status, hass_data, devices, has_data, data,
                   last_update_success, listeners, cmd, entities>>

\* _async_update_data returned the devices of a 200 answer: they become the
\* snapshot, the interval is armed again and the listeners are called.
refresh_ok ==
    /\ setup \in {"loaded", "unloaded"}
    /\ fetch.pc = "answered"
    /\ LET r == AsyncUpdateData(data, [kind |-> "ok", devices |-> fetch.devices])
       IN  /\ data' = IF r.raised THEN data ELSE r.devices
           /\ last_update_success' = ~r.raised
           /\ UpdateListeners(~r.raised \/ last_update_success, data', {})
           /\ last' = Did("refresh_ok",
                          (~r.raised \/ last_update_success) /\ listeners,
                          ListenerRaises(~r.raised \/ last_update_success),
                          NoResult, fetch.patched)
    /\ unsub_refresh' = ScheduleRefresh(listeners)
    /\ fetch' = NoFetch
    /\ UNCHANGED <<entry, headers, flow, entries>>
    /\ UNCHANGED <<setup, status, hass_data, has_data, listeners, cmd>>

\* _async_update_data raised UpdateFailed (a timeout, a client error or a
\* status other than 200): the snapshot stays, last_update_success is false,
\* the interval is armed again, and the listeners are called unless the
\* refresh before had failed too.
refresh_failed ==
    /\ setup \in {"loaded", "unloaded"}
    /\ \E response \in FailedResponses :
        /\ fetch.pc = "sent" \/ (fetch.pc = "answered" /\ response.kind # "status")
        /\ LET r == AsyncUpdateData(data, response)
           IN  /\ data' = IF r.raised THEN data ELSE r.devices
               /\ last_update_success' = ~r.raised
               /\ UpdateListeners(~r.raised \/ last_update_success, data', {})
               /\ last' = Did("refresh_failed",
                              (~r.raised \/ last_update_success) /\ listeners,
                              ListenerRaises(~r.raised \/ last_update_success),
                              NoResult, FALSE)
    /\ unsub_refresh' = ScheduleRefresh(listeners)
    /\ fetch' = NoFetch
    /\ UNCHANGED <<entry, headers, flow, entries>>
    /\ UNCHANGED <<setup, status, hass_data, has_data, listeners, cmd>>

(***************************************************************************)
(* coordinator.py: send_relay_command, and the switch actions calling it   *)
(***************************************************************************)

\* send_relay_command(device_id, command, value) is called, by the action of
\* the switch of the device (via "entity": async_turn_on, async_turn_off,
\* async_toggle) or by another caller (via "coordinator"), and sends its POST.
send_relay_command_by(ids, callers) ==
    /\ setup = "loaded"
    /\ cmd.pc = "idle"
    /\ \E device_id \in ids, command \in {"toggle", "set_state"},
          value \in BOOLEAN, via \in callers :
        /\ via = "entity" => device_id \in DOMAIN entities
        /\ command = "toggle" => value = FALSE
        /\ cmd' = [pc |-> "sent", device_id |-> device_id, command |-> command,
                   value |-> value, via |-> via, headers |-> headers]
    /\ last' = Pending
    /\ UNCHANGED <<entry, headers, flow, entries>>
    /\ UNCHANGED <<setup, status, hass_data, devices, has_data, data,
                   last_update_success, listeners, unsub_refresh, fetch,
                   entities>>

\* A relay command of any caller for any device id.
send_relay_command == send_relay_command_by(DeviceIds, {"entity", "coordinator"})

\* The POST is over with `response`: send_relay_command returns or raises, and
\* when it returned to a switch action, the action goes on.
\* async_set_updated_data sets the data and last_update_success, arms the
\* interval again and calls the listeners.
command_done(response) ==
    LET r == SendRelayCommand(data, cmd.device_id, response)
        acting == IF cmd.via = "entity" /\ ~r.raised /\ ~ListenerRaises(r.updated)
                  THEN {cmd.device_id}
                  ELSE {}
    IN  /\ data' = r.data
        /\ last_update_success' = (r.updated \/ last_update_success)
        /\ unsub_refresh' =
               IF r.updated THEN ScheduleRefresh(listeners) ELSE unsub_refresh
        /\ UpdateListeners(r.updated, data', acting)
        /\ fetch' = IF r.data # data /\ fetch.pc = "answered"
                    THEN [fetch EXCEPT !.patched = TRUE]
                    ELSE fetch
        /\ last' = Did(IF response.kind = "ok" THEN "command_ok"
                       ELSE "command_failed",
                       r.updated /\ listeners,
                       r.raised \/ ListenerRaises(r.updated), r.result, FALSE)
        /\ cmd' = NoCmd
        /\ UNCHANGED <<entry, headers, flow, entries>>
        /\ UNCHANGED <<setup, status, hass_data, has_data, listeners>>

\* The POST answered 200 with a result.
command_ok ==
    /\ cmd.pc = "sent"
    /\ \E response \in RelayResponses(cmd.device_id) :
        response.kind = "ok" /\ command_done(response)

\* The POST timed out, failed, or answered another status than 200.
command_failed ==
    /\ cmd.pc = "sent"
    /\ \E response \in FailedResponses : command_done(response)

(***************************************************************************)
(* __init__.py: async_unload_entry                                         *)
(***************************************************************************)

\* async_unload_entry: async_unload_platforms removes the switches and the
\* sensors, each unsubscribing its own listener, and the entry id is removed
\* from hass.data. handle_coordinator_update of switch.py stays subscribed:
\* what async_add_listener returned for it was not kept. The config entry then
\* shuts the coordinator down: the scheduled refresh is cancelled.
async_unload_entry ==
    /\ setup = "loaded"
    /\ setup' = "unloaded"
    /\ entities' = EmptyDict
    /\ hass_data' = FALSE
    /\ devices' = {}
    /\ unsub_refresh' = Unscheduled
    /\ last' = Did("unloaded", FALSE, FALSE, NoResult, FALSE)
    /\ UNCHANGED <<entry, headers, flow, entries>>
    /\ UNCHANGED <<status, has_data, data, last_update_success, listeners,
                   fetch, cmd>>

Next ==
    \/ async_setup_entry
    \/ status_failed
    \/ status_online
    \/ devices_answer
    \/ first_refresh_ok
    \/ first_refresh_failed
    \/ forward_entry_setups
    \/ tick
    \/ refresh_interval
    \/ refresh_ok
    \/ refresh_failed
    \/ send_relay_command
    \/ command_ok
    \/ command_failed
    \/ async_unload_entry

Spec == Init /\ [][Next]_vars

(***************************************************************************)
(* The entry of a tablet with one light, set up with any entry data, its   *)
(* light switched by its switch entity.                                    *)
(***************************************************************************)

\* The device lists of a tablet that has device "1", a light, or nothing.
OneLightLists ==
    {l \in DeviceLists :
        \A i \in DOMAIN l :
            Str(l[i].id) = "1" /\ l[i].type = RELAY_TYPE_LIGHT}

\* The tablet answers the GET /api/devices in flight with its light or nothing.
one_light_answer == devices_answer_from(OneLightLists)

\* An action of the switch of device "1".
switch_action == send_relay_command_by({"1"}, {"entity"})

\* coordinator.test_connection(): GET /api/status with self.headers; true when
\* the answer is 200 and says online, false on any other answer or failure.
\* The record keeps the headers the GET carried and the value returned.
test_connection ==
    /\ hass_data
    /\ \E response \in StatusResponses :
        last' = Did("test_connection", FALSE, FALSE,
                    [headers |-> headers,
                     online |-> response.kind = "ok"
                                /\ Get(response.body, "online", FALSE)],
                    FALSE)
    /\ UNCHANGED <<entry, headers, flow, entries>>
    /\ UNCHANGED <<setup, status, hass_data, devices, has_data, data,
                   last_update_success, listeners, unsub_refresh, fetch, cmd,
                   entities>>

OneLightInit == \E entry_data \in EntryDatas : InitWith(entry_data)

OneLightNext ==
    \/ async_setup_entry
    \/ status_failed
    \/ status_online
    \/ one_light_answer
    \/ first_refresh_ok
    \/ first_refresh_failed
    \/ forward_entry_setups
    \/ tick
    \/ refresh_interval
    \/ refresh_ok
    \/ refresh_failed
    \/ switch_action
    \/ command_ok
    \/ command_failed
    \/ test_connection
    \/ async_unload_entry

OneLightSpec == OneLightInit /\ [][OneLightNext]_vars

\* The event loop runs what is ready, time passes, and every HTTP call ends,
\* by its answer or by its timeout.
LiveSpec ==
    /\ OneLightSpec
    /\ WF_vars(tick)
    /\ WF_vars(refresh_interval)
    /\ WF_vars(first_refresh_ok \/ first_refresh_failed)
    /\ WF_vars(refresh_ok \/ refresh_failed)
    /\ WF_vars(command_ok \/ command_failed)
    /\ WF_vars(status_online \/ status_failed)

(***************************************************************************)
(* config_flow.py                                                          *)
(***************************************************************************)

\* The modules config_flow.py imports (lines 4-16).
Imports ==
    {"logging", "typing", "aiohttp", "async_timeout", "voluptuous",
     "homeassistant"}

\* The answers to the GET /api/discover of _test_connection.
DiscoverResponses ==
    [kind : {"ok"},
     body : {EmptyDict, [api |-> EmptyDict],
             [api |-> [auth_required |-> FALSE]],
             [api |-> [auth_required |-> TRUE]]}]
        \cup FailedResponses

\* The answers to the GET /api/status of _test_auth: 200, 401, or a failure.
AuthResponses == [kind : {"ok", "unauthorized"}] \cup FailedResponses

\* The exception raised in the body of the try of _test_connection and
\* _test_auth by an answer that is not 200.
Raised(response) ==
    CASE response.kind = "unauthorized" -> "InvalidAuth"
      [] response.kind = "status" -> "CannotConnect"
      [] response.kind = "timeout" -> "TimeoutError"
      [] response.kind = "client_error" -> "ClientError"

\* The except clauses of _test_connection and _test_auth (lines 158-161 and
\* 181-184) on the exception exc: the first clause names asyncio.TimeoutError,
\* a NameError when the module does not import asyncio; otherwise a timeout
\* and a client error become CannotConnect and the others pass.
ExceptClauses(exc) ==
    IF "asyncio" \notin Imports
    THEN "NameError"
    ELSE IF exc \in {"TimeoutError", "ClientError"}
         THEN "CannotConnect"
         ELSE exc

\* _test_connection: the discovery info with the ip and the port, or the
\* exception that leaves it.
TestConnection(user_input, response) ==
    IF response.kind = "ok"
    THEN [raised |-> "",
          info |-> DictUpdate(response.body,
                              [ip |-> user_input.tablet_ip,
                               port |-> user_input.tablet_port])]
    ELSE [raised |-> ExceptClauses(Raised(response)), info |-> EmptyDict]

\* _test_auth, line 169: the headers of its GET /api/status.
TestAuthHeaders(config) == "X-HA-Access" :> config.api_key

\* A bug of _test_auth: the status of the answer is not looked at.
TestAuth_AnyStatus(response) ==
    IF response.kind \in {"ok", "unauthorized", "status"}
    THEN ""
    ELSE ExceptClauses(Raised(response))

\* _test_auth: the exception that leaves it, "" when it returns.
TestAuth(response) ==
    IF response.kind = "ok" THEN "" ELSE ExceptClauses(Raised(response))

\* f"{ip}:{port}"
UniqueId(ip, port) == ip \o ":" \o ToString(port)

\* The except clauses of async_step_user, lines 74-80.
UserStepError(exc) ==
    CASE exc = "CannotConnect" -> "cannot_connect"
      [] exc = "InvalidAuth" -> "invalid_auth"
      [] OTHER -> "unknown"

\* The except clauses of async_step_auth, lines 122-125.
AuthStepError(exc) ==
    CASE exc = "InvalidAuth" -> "invalid_auth"
      [] OTHER -> "unknown"

\* The exception that leaves the try of a step whose test left with exc (""
\* when it returned): _abort_if_unique_id_configured raises AbortFlow when an
\* entry has the unique id.
AbortIfConfigured(exc, unique_id) ==
    IF exc = "" /\ \E e \in entries : e.unique_id = unique_id
    THEN "AbortFlow"
    ELSE exc

\* async_create_entry: the entries with the one the flow creates for its
\* unique id.
AsyncCreateEntry(unique_id, entry_data) ==
    entries \cup {[unique_id |-> unique_id, data |-> entry_data]}

\* A config flow is started: async_step_user without input shows its form.
flow_init ==
    /\ flow.step \in {"none", "create_entry"}
    /\ flow' = [NoFlow EXCEPT !.step = "user"]
    /\ UNCHANGED <<setup, status, hass_data, devices, has_data, data,
                   last_update_success, listeners, unsub_refresh, fetch, cmd,
                   entities, last, entry, headers, entries>>

\* async_step_user with the address of a tablet, and the answer to its GET
\* /api/discover: the auth step when the tablet requires auth, the entry
\* otherwise, the form again with an error on an exception.
async_step_user ==
    /\ flow.step = "user"
    /\ \E ip \in TabletIps, response \in DiscoverResponses :
        LET user_input == [tablet_ip |-> ip, tablet_port |-> DEFAULT_PORT]
            r == TestConnection(user_input, response)
            auth_required ==
                /\ r.raised = ""
                /\ Get(Get(r.info, "api", EmptyDict), "auth_required", FALSE)
            unique_id == UniqueId(user_input.tablet_ip, user_input.tablet_port)
            exc == AbortIfConfigured(r.raised, unique_id)
            entry_data == DictUpdate(user_input,
                                     [use_auth |-> FALSE, api_key |-> ""])
        IN  /\ flow' =
                   [step |-> IF auth_required THEN "auth"
                             ELSE IF exc = "" THEN "create_entry"
                             ELSE "user",
                    errors |-> IF auth_required \/ exc = "" THEN EmptyDict
                               ELSE [base |-> UserStepError(exc)],
                    discovered_info |-> IF r.raised = "" THEN r.info
                                        ELSE flow.discovered_info,
                    answer |-> response.kind,
                    headers |-> EmptyDict]
            /\ entries' = IF ~auth_required /\ exc = ""
                          THEN AsyncCreateEntry(unique_id, entry_data)
                          ELSE entries
    /\ UNCHANGED <<setup, status, hass_data, devices, has_data, data,
                   last_update_success, listeners, unsub_refresh, fetch, cmd,
                   entities, last, entry, headers>>

\* async_step_auth with an API key, and the answer to the GET /api/status of
\* _test_auth: the entry, or the form again with an error on an exception.
async_step_auth ==
    /\ flow.step = "auth"
    /\ \E key \in ApiKeys, response \in AuthResponses :
        LET full_config ==
                [tablet_ip |-> Get(flow.discovered_info, "ip", "None"),
                 tablet_port |-> Get(flow.discovered_info, "port", DEFAULT_PORT),
                 use_auth |-> TRUE, api_key |-> key]
            unique_id ==
                UniqueId(full_config.tablet_ip, full_config.tablet_port)
            exc == AbortIfConfigured(TestAuth(response), unique_id)
        IN  /\ flow' =
                   [flow EXCEPT
                       !.step = IF exc = "" THEN "create_entry" ELSE "auth",
                       !.errors = IF exc = "" THEN EmptyDict
                                  ELSE [base |-> AuthStepError(exc)],
                       !.answer = response.kind,
                       !.headers = TestAuthHeaders(full_config)]
            /\ entries' = IF exc = ""
                          THEN AsyncCreateEntry(unique_id, full_config)
                          ELSE entries
    /\ UNCHANGED <<setup, status, hass_data, devices, has_data, data,
                   last_update_success, listeners, unsub_refresh, fetch, cmd,
                   entities, last, entry, headers>>

FlowNext ==
    \/ flow_init
    \/ async_step_user
    \/ async_step_auth

FlowSpec == Init /\ [][FlowNext]_vars

(***************************************************************************)
(* The claims                                                              *)
(***************************************************************************)

\* A step that ends the GET /api/devices in flight, as the call `op`.
FetchEnds(op) == fetch.pc # "idle" /\ fetch'.pc = "idle" /\ last'.op = op

\* A step that ends the relay command in flight, as the call `op`.
CommandEnds(op) == cmd.pc = "sent" /\ cmd'.pc = "idle" /\ last'.op = op

\* C1: after a refresh whose fetch returned 200, the snapshot is exactly the
\* device list of that fetch keyed by str(id): every returned device is there
\* with its fields, and no other id is, whatever the snapshot held before.
C1_FullReplace ==
    [][(FetchEnds("refresh_ok") \/ FetchEnds("first_refresh_ok")) =>
        /\ DOMAIN data' = {Str(fetch.devices[i].id) : i \in DOMAIN fetch.devices}
        /\ \A i \in DOMAIN fetch.devices :
               data'[Str(fetch.devices[i].id)] = fetch.devices[i]]_vars

\* C1: a refresh has just replaced a snapshot that held device "1" (its switch
\* exists) by a list without it.
C1_Witness ==
    /\ last.op = "refresh_ok"
    /\ "1" \in DOMAIN entities
    /\ DOMAIN data = {"2"}

\* C2: a refresh that fails (timeout, client error, status other than 200)
\* leaves the snapshot as it was, command patches included, and
\* last_update_success is false after it.
C2_FailedRefreshKeepsSnapshot ==
    [][(FetchEnds("refresh_failed") \/ FetchEnds("first_refresh_failed")) =>
        /\ data' = data
        /\ has_data' = has_data
        /\ last_update_success' = FALSE]_vars

\* C2: a refresh has just failed on a snapshot holding a shutter with a state,
\* which only a command patch gives it.
C2_Witness ==
    /\ last.op = "refresh_failed"
    /\ ~last_update_success
    /\ \E id \in DOMAIN data :
        data[id].type = RELAY_TYPE_SHUTTER /\ "state" \in DOMAIN data[id]

\* C3: a successful send_relay_command for an id of the snapshot changes only
\* that entry: the fields of the result are merged into it, its other fields
\* keep their values, and the other entries and the set of ids are unchanged.
C3_PatchOnlyDevice ==
    [][(CommandEnds("command_ok") /\ cmd.device_id \in DOMAIN data) =>
        LET id == cmd.device_id
            result == last'.result
        IN  /\ DOMAIN data' = DOMAIN data
            /\ \A other \in DOMAIN data \ {id} : data'[other] = data[other]
            /\ DOMAIN data'[id] = DOMAIN data[id] \cup DOMAIN result
            /\ \A f \in DOMAIN result : data'[id][f] = result[f]
            /\ \A f \in DOMAIN data[id] \ DOMAIN result :
                   data'[id][f] = data[id][f]]_vars

\* C3: a command has just patched an entry of a snapshot of two devices with a
\* result that carries the state only.
C3_Witness ==
    /\ last.op = "command_ok"
    /\ last.notified
    /\ last.result = [state |-> TRUE]
    /\ DOMAIN data = {"1", "2"}

\* C4: a send_relay_command that fails (timeout, client error, status other
\* than 200) raises to its caller, leaves the snapshot as it was and calls no
\* listener.
C4_FailedCommand ==
    [][CommandEnds("command_failed") =>
        /\ last'.raised
        /\ ~last'.notified
        /\ data' = data
        /\ entities' = entities
        /\ devices' = devices]_vars

\* C4: a command has just failed on a snapshot with devices.
C4_Witness ==
    /\ last.op = "command_failed"
    /\ last.raised
    /\ data # EmptyDict

\* C5: a send_relay_command answered 200 for an id that is not in the snapshot
\* does not raise, returns the result, leaves the snapshot as it was (no entry
\* for the id) and calls no listener.
C5_UnknownDevice ==
    [][(CommandEnds("command_ok") /\ cmd.device_id \notin DOMAIN data) =>
        /\ ~last'.raised
        /\ last'.result \in RelayResults(cmd.device_id)
        /\ data' = data
        /\ ~last'.notified]_vars

\* C5: a command for an id that is not in the snapshot has just returned.
C5_Witness ==
    /\ last.op = "command_ok"
    /\ ~last.raised
    /\ ~last.notified
    /\ last.result # NoResult
    /\ DOMAIN data # DeviceIds

\* C6: a refresh never replaces the snapshot with a device list that the
\* tablet made before a command patch which was applied while the fetch was in
\* flight.
C6_NoPatchLost == last.op = "refresh_ok" => ~last.stale

\* C8: after a toggle of a device of the snapshot succeeded with a result that
\* carries state s, the switch of the device shows s, toggled through the
\* coordinator or through async_toggle, and the device count is unchanged.
C8_ToggleShowsState ==
    [][(/\ CommandEnds("command_ok")
        /\ cmd.command = "toggle"
        /\ cmd.device_id \in DOMAIN data
        /\ cmd.device_id \in DOMAIN entities) =>
        /\ entities'[cmd.device_id] = last'.result.state
        /\ Cardinality(DOMAIN data') = Cardinality(DOMAIN data)]_vars

\* C9, as claimed: the listeners are called after every successful refresh and
\* every successful command patch, and never by a refresh that failed.
C9_FailedRefreshSilent ==
    /\ last.op = "refresh_ok" => last.notified
    /\ last.op \in {"refresh_failed", "first_refresh_failed"} => ~last.notified

\* C9, amended: the listeners are called after every successful refresh and
\* every successful command patch; a refresh that fails calls them too when
\* last_update_success was true before it, and only then.
C9_Notifications ==
    [][/\ FetchEnds("refresh_ok") => last'.notified
       /\ (CommandEnds("command_ok") /\ cmd.device_id \in DOMAIN data) =>
              last'.notified
       /\ FetchEnds("refresh_failed") =>
              (last'.notified <=> last_update_success)]_vars

\* C9: a failed refresh has just called the listeners.
C9_Witness == last.op = "refresh_failed" /\ last.notified

\* C10: the platforms are set up only after /api/status answered 200 with
\* online true and the first refresh gave the snapshot; a failed probe or
\* first refresh ends async_setup_entry with ConfigEntryNotReady, no platform
\* set up.
C10_SetupOrder ==
    /\ (setup \in {"forward", "loaded"} \/ listeners) =>
        /\ status.kind = "ok"
        /\ Get(status.body, "online", FALSE)
        /\ has_data
    /\ setup \in {"forward", "loaded"} => hass_data
    /\ last.op \in {"probe_failed", "first_refresh_failed"} =>
        /\ setup = "not_ready"
        /\ last.raised
        /\ ~listeners
    /\ setup \in {"not_loaded", "probe", "first_refresh", "not_ready"} =>
        ~listeners

\* C10: the platforms of the entry have just been set up.
C10_Witness ==
    /\ setup = "loaded"
    /\ listeners
    /\ has_data
    /\ last.op = "loaded"

\* C11: once a refresh has failed, another refresh attempt follows unless the
\* entry is unloaded, whatever commands are dispatched in between.
C11_RefreshGoesOn ==
    (last.op = "refresh_failed" /\ setup = "loaded")
        ~> (fetch.pc = "sent" \/ setup = "unloaded")

\* C12: once async_unload_entry succeeded, no listener of the integration is
\* subscribed to the coordinator any more, and none is called against the
\* removed hass.data entry.
C12_UnloadDrains == setup = "unloaded" => (~listeners /\ ~last.notified)

\* C13: a refresh that fails leaves the device count at the number of entries
\* of the snapshot it found, and the connection status reads "Disconnected"
\* after it; at any time the connection status reads "Connected" exactly when
\* last_update_success is true.
C13_ViewsAfterFailure ==
    [][/\ FetchEnds("refresh_failed") =>
            /\ DeviceCount(data') = Cardinality(DOMAIN data)
            /\ ConnectionStatus(last_update_success') = "Disconnected"
       /\ ConnectionStatus(last_update_success') = "Connected"
            <=> last_update_success']_vars

\* C13: a refresh has just failed after one that succeeded, on a snapshot with
\* devices.
C13_Witness ==
    /\ last.op = "refresh_failed"
    /\ last.notified
    /\ DeviceCount(data) = Cardinality(DeviceIds)
    /\ ConnectionStatus(last_update_success) = "Disconnected"

\* The sum of the counts of the groups `names` of the grouping g.
RECURSIVE GroupSum(_, _)
GroupSum(g, names) ==
    IF names = {}
    THEN 0
    ELSE LET name == CHOOSE n \in names : TRUE
         IN  g[name] + GroupSum(g, names \ {name})

\* C14: the device count is the number of snapshot entries, its groups are
\* the device types by name (a device of type 1 is counted under "Light"),
\* and the counts of the groups sum to the device count.
C14_GroupedByType ==
    has_data =>
        LET g == DeviceTypes(data)
        IN  /\ DeviceCount(data) = Cardinality(DOMAIN data)
            /\ GroupSum(g, DOMAIN g) = DeviceCount(data)
            /\ DOMAIN g = {DEVICE_TYPE_NAMES[data[id].type] : id \in DOMAIN data}
            /\ \A id \in DOMAIN data :
                   g[DEVICE_TYPE_NAMES[data[id].type]] =
                       Cardinality({other \in DOMAIN data :
                                       data[other].type = data[id].type})

\* C15: a switch is created only for a device that has no switch yet.
C15_OneSwitchPerDevice ==
    [][\A id \in devices' \ devices : id \notin DOMAIN entities]_vars

\* The headers h are those of a call for the entry that is set up: X-HA-Access
\* with the entry's key when use_auth is set, no X-HA-Access otherwise.
Authorized(h) ==
    IF Get(entry, "use_auth", FALSE)
    THEN "X-HA-Access" \in DOMAIN h
         /\ h["X-HA-Access"] = Get(entry, "api_key", "")
    ELSE "X-HA-Access" \notin DOMAIN h

\* C16: the GET /api/status of the setup, the GET /api/devices, the POST of a
\* relay command and the GET of test_connection carry X-HA-Access with the
\* entry's key when use_auth is set and no X-HA-Access when it is not, and
\* so does coordinator.headers from the construction on.
C16_AuthHeader ==
    /\ setup = "probe" => Authorized(status.headers)
    /\ fetch.pc # "idle" => Authorized(fetch.headers)
    /\ cmd.pc = "sent" => Authorized(cmd.headers)
    /\ last.op = "test_connection" => Authorized(last.result.headers)
    /\ (hass_data \/ setup = "unloaded") => Authorized(headers)

\* C16: a relay command and a refresh are in flight for an entry without
\* use_auth, after the probe and the first refresh of its setup.
C16_Witness ==
    /\ ~Get(entry, "use_auth", FALSE)
    /\ setup = "loaded"
    /\ cmd.pc = "sent"
    /\ fetch.pc = "sent"
    /\ cmd.headers = EmptyDict

\* C17: when the tablet answers the auth test of the auth step with 401, the
\* form of the auth step is shown again with the error "invalid_auth", and no
\* entry is created.
C17_InvalidAuth ==
    flow.answer = "unauthorized" =>
        /\ flow.step = "auth"
        /\ flow.errors = [base |-> "invalid_auth"]

\* C18: when the discovery call of the user step fails by a timeout, a client
\* error or a status other than 200, the form of the user step is shown again
\* with the error "cannot_connect", and no entry is created.
C18_CannotConnect ==
    (flow.step = "user" /\ flow.answer \in Failures) =>
        flow.errors = [base |-> "cannot_connect"]

\* C19, as claimed: a send_relay_command, successful or failed, leaves
\* last_update_success as it was.
C19_CommandKeepsStatus ==
    [][(CommandEnds("command_ok") \/ CommandEnds("command_failed")) =>
        last_update_success' = last_update_success]_vars

\* C19, amended: last_update_success changes only when a refresh ends, when a
\* command for a device of the snapshot succeeds, or when the setup makes a
\* new coordinator; a command that fails, or that succeeds for an id that is
\* not in the snapshot, leaves it as it was, and a command that succeeds for
\* a device of the snapshot leaves it true: the connection status reads
\* "Connected" then, also after a failed refresh.
C19_StatusChanges ==
    [][/\ CommandEnds("command_failed") =>
            last_update_success' = last_update_success
       /\ (CommandEnds("command_ok") /\ cmd.device_id \notin DOMAIN data) =>
            last_update_success' = last_update_success
       /\ (CommandEnds("command_ok") /\ cmd.device_id \in DOMAIN data) =>
            ConnectionStatus(last_update_success') = "Connected"
       /\ last_update_success' # last_update_success =>
            \/ fetch.pc # "idle" /\ fetch'.pc = "idle"
            \/ CommandEnds("command_ok")
            \/ last'.op = "probe_ok"]_vars

\* C19: a command for an id that is not in the snapshot has just succeeded
\* after a failed refresh, and the connection status still reads
\* "Disconnected".
C19_Witness ==
    /\ last.op = "command_ok"
    /\ ~last.notified
    /\ setup = "loaded"
    /\ ConnectionStatus(last_update_success) = "Disconnected"

\* C20: when the action of a switch fails because send_relay_command raised,
\* the exception reaches the caller, the snapshot is as it was, and the switch
\* shows the state its device has in the snapshot.
C20_FailedAction ==
    [][(/\ CommandEnds("command_failed")
        /\ cmd.via = "entity"
        /\ cmd.device_id \in DOMAIN entities'
        /\ cmd.device_id \in DOMAIN data') =>
        /\ last'.raised
        /\ data' = data
        /\ entities'[cmd.device_id] = SwitchIsOn(data'[cmd.device_id])]_vars

\* C21: after async_turn_on or async_turn_off of a switch returned, the switch
\* shows the state its device has in the snapshot, which is the state the
\* tablet answered the command with, whatever state was asked for.
C21_TurnShowsState ==
    [][(/\ CommandEnds("command_ok")
        /\ cmd.command = "set_state"
        /\ cmd.via = "entity"
        /\ cmd.device_id \in DOMAIN data
        /\ cmd.device_id \in DOMAIN entities') =>
        /\ data'[cmd.device_id].state = last'.result.state
        /\ entities'[cmd.device_id] = data'[cmd.device_id].state]_vars

\* C22: hass.data[DOMAIN] holds the entry id only while the entry is being
\* set up or is set up: not after async_setup_entry failed at the probe or at
\* the first refresh, and not after async_unload_entry.
C22_RegistryWhileSetUp ==
    /\ last.op \in {"probe_failed", "first_refresh_failed", "unloaded"} =>
        ~hass_data
    /\ setup \in {"not_loaded", "not_ready", "unloaded"} => ~hass_data

\* The discovery info says that the tablet requires auth.
AuthRequired(info) ==
    Get(Get(info, "api", EmptyDict), "auth_required", FALSE)

\* An entry has the unique id of the tablet of the discovery info.
Configured(info) ==
    \E e \in entries : e.unique_id = UniqueId(info.ip, info.port)

\* C23: when the discovery of the user step says auth_required, the step
\* creates no entry and the auth step follows; when it does not, the entry of
\* a tablet that has none is created with use_auth false and an empty key;
\* and an entry with use_auth true is created only by an auth step whose test,
\* sent with the key of the entry, was answered 200.
C23_AuthRequired ==
    [][/\ (flow.step = "user" /\ flow'.answer = "ok") =>
            LET info == flow'.discovered_info
            IN  /\ AuthRequired(info) =>
                    flow'.step = "auth" /\ entries' = entries
                /\ (~AuthRequired(info) /\ ~Configured(info)) =>
                    /\ flow'.step = "create_entry"
                    /\ entries' = entries \cup
                           {[unique_id |-> UniqueId(info.ip, info.port),
                             data |-> [tablet_ip |-> info.ip,
                                       tablet_port |-> info.port,
                                       use_auth |-> FALSE, api_key |-> ""]]}
       /\ \A e \in entries' \ entries :
            e.data.use_auth =>
                /\ flow.step = "auth"
                /\ flow'.answer = "ok"
                /\ flow'.headers = ("X-HA-Access" :> e.data.api_key)]_vars

\* C23: a flow has just created an entry with use_auth after its auth test
\* was answered 200, and another tablet has an entry without use_auth.
C23_Witness ==
    /\ flow.step = "create_entry"
    /\ flow.answer = "ok"
    /\ AuthRequired(flow.discovered_info)
    /\ \E e \in entries :
        /\ e.data.use_auth
        /\ e.unique_id = UniqueId(flow.discovered_info.ip,
                                  flow.discovered_info.port)
        /\ flow.headers = ("X-HA-Access" :> e.data.api_key)
    /\ \E e \in entries : ~e.data.use_auth

\* C24: no two entries have the same ip:port, and a step that would create
\* the entry of a tablet that has one creates none and ends the flow in an
\* abort.
C24_AbortWhenConfigured ==
    [][/\ \A e1, e2 \in entries' :
            (\/ e1.unique_id = e2.unique_id
             \/ (/\ e1.data.tablet_ip = e2.data.tablet_ip
                 /\ e1.data.tablet_port = e2.data.tablet_port)) => e1 = e2
       /\ (\/ /\ flow.step = "user"
               /\ flow'.answer = "ok"
               /\ ~AuthRequired(flow'.discovered_info)
               /\ Configured(flow'.discovered_info)
            \/ /\ flow.step = "auth"
               /\ flow'.answer = "ok"
               /\ Configured(flow.discovered_info)) =>
            /\ entries' = entries
            /\ flow'.step = "abort"]_vars
====
